---------------------------- MODULE Spec2Model ----------------------------
(***************************************************************************)
(* A model of two components of the raiden-network node:                   *)
(*                                                                         *)
(*   - blockchain.AlarmTask (src/blockchain/alarmtask.go), the chain       *)
(*     monitor that invokes registered callbacks with new block heights;   *)
(*   - ConnectionManager (src/connectionmanager.go), the per token network *)
(*     policy that opens, funds and closes channels.                       *)
(*                                                                         *)
(* The two components do not share state.  SpecAlarm runs the monitor with *)
(* the connection manager frozen in its constructed state, SpecCM runs the *)
(* connection manager with the monitor frozen.                             *)
(***************************************************************************)
EXTENDS Integers, Sequences, FiniteSets, TLC

(***************************************************************************)
(* Bounds of the model.                                                    *)
(***************************************************************************)
\* Highest block height the chain reaches.
MaxHeight == 2
\* Number of distinct callbacks clients may register.
NCallbacks == 2
\* Number of Stop() calls clients may issue.
NStoppers == 2

Callbacks == 1..NCallbacks
Stoppers == 1..NStoppers

VARIABLES
    \* ---- the ledger as the monitor sees it (ethclient.Client) ----
    chainHead,        \* height of the latest block of the chain (no forks)
    ledgerUp,         \* whether calls to the ledger client succeed
    \* ---- AlarmTask fields ----
    lastBlockNumber,  \* AlarmTask.lastBlockNumber
    callback,         \* AlarmTask.callback, a sequence of callbacks
    shouldStopClosed, \* whether AlarmTask.shouldStop has been closed
    \* ---- the goroutine started by Start(), executing run() ----
    pc,               \* its position in run() / waitNewBlock()
    currentBlock,     \* local currentBlock of waitNewBlock
    headerCh,         \* heads waiting in headerCh, oldest first
    headerChClosed,   \* whether headerCh has been closed
    sub,              \* the head subscription: "none", "live" or "dead"
    ranging,          \* the slice the range loop of line 108 iterates over
    idx,              \* position of that loop in ranging
    removes,          \* local removes of waitNewBlock
    \* ---- callers of Stop() ----
    stopPc,           \* position of each Stop() call
    panicked,         \* the process died of a run-time panic
    \* ---- observations (history only, never read by the program) ----
    registered,       \* callbacks RegisterCallback has been called with
    lastArg,          \* per callback, the last height it was invoked with
    lastRemoved,      \* the callback RemoveCallback last returned for, or 0
    \* ---- ConnectionManager fields ----
    funds,               \* ConnectionManager.funds
    initChannelTarget,   \* ConnectionManager.initChannelTarget
    joinableFundsTarget, \* ConnectionManager.joinableFundsTarget, a fraction
    \* ---- collaborators of the connection manager ----
    blockedTokens,    \* raiden.MessageHandler.blockedTokens, a set of tokens
    channels,         \* per partner address, the channel of this token network
    graphNodes,       \* the nodes of channelGraph
    \* ---- the caller of Leave() ----
    leavePc,          \* "idle", "wait" (inside WaitForSettle) or "returned"
    closedChannels,   \* the channels closeAll returned
    found,            \* local found of WaitForSettle
    \* ---- observations (history only, never read by the program) ----
    calls,            \* ledger calls issued by the last operation, in order
    lastOp,           \* the last operation called, its arguments and result
    \* ---- the dispatcher of chain-derived state changes ----
    chainEvents,      \* the events of the watched channel on the chain, in order
    delivered,        \* the state changes delivered to the consumer, in order
    dispatchedTo,     \* the height up to which events have been dispatched
    \* ---- concurrent callers of one ConnectionManager ----
    threads,          \* per calling goroutine, its position, arguments, locals
    lock,             \* ConnectionManager.lock: 0 when free, else its holder
    \* ---- notify.Handler and its users ----
    waiting,          \* per channel, whether a consumer is blocked receiving
    prod,             \* per producer, the Notify* call it is in
    handed,           \* per channel, the items handed to the consumer, in order
    dropped,          \* the items a producer gave up on
    nextItem          \* the next item a producer will pass

alarmVars == <<chainHead, ledgerUp, lastBlockNumber, callback, shouldStopClosed,
               pc, currentBlock, headerCh, headerChClosed, sub, ranging, idx,
               removes, stopPc, panicked, registered, lastArg, lastRemoved>>

cmVars == <<funds, initChannelTarget, joinableFundsTarget, blockedTokens,
            channels, graphNodes, leavePc, closedChannels, found, calls,
            lastOp>>

dispatchVars == <<chainEvents, delivered, dispatchedTo>>

concVars == <<threads, lock>>

notifyVars == <<waiting, prod, handed, dropped, nextItem>>

auxVars == <<dispatchVars, concVars, notifyVars>>

vars == <<alarmVars, cmVars, auxVars>>

(***************************************************************************)
(* Helpers on sequences.                                                   *)
(***************************************************************************)
Range(s) == {s[i] : i \in 1..Len(s)}

RECURSIVE SeqWithout(_, _)
\* s with the element at index k cut out: append(s[:k], s[k+1:]...)
SeqWithout(s, k) ==
    IF k > Len(s) THEN s
    ELSE SubSeq(s, 1, k - 1) \o SubSeq(s, k + 1, Len(s))

(***************************************************************************)
(* AlarmTask                                                               *)
(***************************************************************************)

\* NewAlarmTask: lastBlockNumber is -1, shouldStop is an open unbuffered
\* channel, no callback is registered and run() has not been started.
AlarmInit ==
    /\ chainHead = 1
    /\ ledgerUp \in BOOLEAN
    /\ lastBlockNumber = -1
    /\ callback = <<>>
    /\ shouldStopClosed = FALSE
    /\ pc = "new"
    /\ currentBlock = -1
    /\ headerCh = <<>>
    /\ headerChClosed = FALSE
    /\ sub = "none"
    /\ ranging = <<>>
    /\ idx = 1
    /\ removes = <<>>
    /\ stopPc = [s \in Stoppers |-> "idle"]
    /\ panicked = FALSE
    /\ registered = {}
    /\ lastArg = [c \in Callbacks |-> 0]
    /\ lastRemoved = 0

\* The comparison of RemoveCallback: addr1 := &c; addr2 := &cb; addr1 == addr2.
\* c is the loop variable and cb the parameter: two distinct variables, whose
\* addresses are never equal, whatever callbacks they hold.
SameCallback(c, cb) == FALSE

RECURSIVE RemoveFrom(_, _, _)
\* The loop of RemoveCallback over the slice s from index k on: the element
\* at k is cut out when the comparison succeeds.  The range expression was
\* evaluated once, so the loop still visits the indices of the original slice.
RemoveFrom(s, cb, k) ==
    IF k > Len(s) THEN s
    ELSE IF SameCallback(s[k], cb)
         THEN RemoveFrom(SeqWithout(s, k), cb, k + 1)
         ELSE RemoveFrom(s, cb, k + 1)

\* The callback list after RemoveCallback(cb).
RemoveCallbackResult(s, cb) == RemoveFrom(s, cb, 1)

RECURSIVE RemoveAll(_, _)
\* The loop of lines 114-116: RemoveCallback for every element of rs.
RemoveAll(s, rs) ==
    IF rs = <<>> THEN s
    ELSE RemoveAll(RemoveCallbackResult(s, Head(rs)), Tail(rs))


\* What every action of the monitor leaves alone unless it says otherwise.
AlarmFrame(changed) ==
    /\ (IF "chainHead" \in changed THEN TRUE ELSE UNCHANGED chainHead)
    /\ (IF "ledgerUp" \in changed THEN TRUE ELSE UNCHANGED ledgerUp)
    /\ UNCHANGED lastBlockNumber
    /\ (IF "callback" \in changed THEN TRUE ELSE UNCHANGED callback)
    /\ (IF "shouldStopClosed" \in changed THEN TRUE ELSE UNCHANGED shouldStopClosed)
    /\ (IF "pc" \in changed THEN TRUE ELSE UNCHANGED pc)
    /\ (IF "currentBlock" \in changed THEN TRUE ELSE UNCHANGED currentBlock)
    /\ (IF "headerCh" \in changed THEN TRUE ELSE UNCHANGED <<headerCh, headerChClosed>>)
    /\ (IF "sub" \in changed THEN TRUE ELSE UNCHANGED sub)
    /\ (IF "loop" \in changed THEN TRUE ELSE UNCHANGED <<ranging, idx, removes>>)
    /\ (IF "stopPc" \in changed THEN TRUE ELSE UNCHANGED stopPc)
    /\ (IF "panicked" \in changed THEN TRUE ELSE UNCHANGED panicked)
    /\ (IF "registered" \in changed THEN TRUE ELSE UNCHANGED registered)
    /\ (IF "observed" \in changed THEN TRUE ELSE UNCHANGED lastArg)
    /\ (IF "lastRemoved" \in changed THEN TRUE ELSE UNCHANGED lastRemoved)
    /\ (IF "dispatch" \in changed THEN TRUE ELSE UNCHANGED dispatchVars)
    /\ UNCHANGED <<cmVars, concVars, notifyVars>>

\* ---- environment: the chain and the connection to it ----

\* A block is mined.  A live subscription forwards the new head to headerCh.
NewBlock ==
    /\ ~panicked
    /\ chainHead < MaxHeight
    /\ chainHead' = chainHead + 1
    /\ IF sub = "live" /\ ~headerChClosed
       THEN /\ headerCh' = Append(headerCh, chainHead + 1)
            /\ UNCHANGED headerChClosed
       ELSE UNCHANGED <<headerCh, headerChClosed>>
    /\ AlarmFrame({"chainHead", "headerCh"})

\* Highest block of the chain when the events of the watched channel are
\* mined too.
MaxEventHeight == 3
\* Number of state changes the consumer keeps.
MaxDelivered == 4

\* A block is mined that holds the next event of the watched channel: its
\* close, and in a later block its settlement.
NewBlockWithEvent ==
    /\ ~panicked
    /\ chainHead < MaxEventHeight
    /\ Len(chainEvents) < 2
    /\ chainHead' = chainHead + 1
    /\ chainEvents' = Append(chainEvents,
                             [kind |-> IF chainEvents = <<>> THEN "closed"
                                       ELSE "settled",
                              block |-> chainHead + 1])
    /\ UNCHANGED <<delivered, dispatchedTo>>
    /\ IF sub = "live" /\ ~headerChClosed
       THEN /\ headerCh' = Append(headerCh, chainHead + 1)
            /\ UNCHANGED headerChClosed
       ELSE UNCHANGED <<headerCh, headerChClosed>>
    /\ AlarmFrame({"chainHead", "headerCh", "dispatch"})

\* The connection to the ledger is lost: calls fail and a subscription made
\* over it delivers nothing any more.
LedgerDown ==
    /\ ~panicked
    /\ ledgerUp
    /\ ledgerUp' = FALSE
    /\ sub' = IF sub = "live" THEN "dead" ELSE sub
    /\ AlarmFrame({"ledgerUp", "sub"})

\* The ledger is reachable again.
LedgerBack ==
    /\ ~panicked
    /\ ~ledgerUp
    /\ ledgerUp' = TRUE
    /\ AlarmFrame({"ledgerUp"})

\* The head stream of a dead subscription is closed under the monitor (the
\* case line 98 tests for).
StreamClose ==
    /\ ~panicked
    /\ sub = "dead"
    /\ ~headerChClosed
    /\ headerChClosed' = TRUE
    /\ UNCHANGED headerCh
    /\ AlarmFrame({"headerCh"})

\* ---- clients of the monitor ----

\* A RegisterCallback that puts cb in front of the list.
RegisterCallbackFirst(cb) ==
    /\ ~panicked
    /\ cb \notin registered
    /\ \A c \in Callbacks : c < cb => c \in registered
    /\ callback' = <<cb>> \o callback
    /\ registered' = registered \cup {cb}
    /\ AlarmFrame({"callback", "registered"})

\* RegisterCallback(cb): appends cb under the lock.
RegisterCallback(cb) ==
    /\ ~panicked
    /\ cb \notin registered
    /\ \A c \in Callbacks : c < cb => c \in registered
    /\ callback' = Append(callback, cb)
    /\ registered' = registered \cup {cb}
    /\ AlarmFrame({"callback", "registered"})

\* RemoveCallback(cb) called by a client, under the lock.
RemoveCallback(cb) ==
    /\ ~panicked
    /\ cb \in registered
    /\ callback' = RemoveCallbackResult(callback, cb)
    /\ lastRemoved' = cb
    /\ AlarmFrame({"callback", "lastRemoved"})

\* Start(): go this.run().
Start ==
    /\ ~panicked
    /\ pc = "new"
    /\ pc' = "fetch"
    /\ AlarmFrame({"pc"})

\* Stop() is called: the caller reaches the send of line 132.
StopCall(s) ==
    /\ ~panicked
    /\ stopPc[s] = "idle"
    /\ \A t \in Stoppers : t < s => stopPc[t] # "idle"
    /\ stopPc' = [stopPc EXCEPT ![s] = "send"]
    /\ AlarmFrame({"stopPc"})

\* A send on a closed channel panics, also for a sender already blocked.
StopSendPanics(s) ==
    /\ ~panicked
    /\ stopPc[s] = "send"
    /\ shouldStopClosed
    /\ panicked' = TRUE
    /\ stopPc' = [stopPc EXCEPT ![s] = "panic"]
    /\ AlarmFrame({"stopPc", "panicked"})

\* A close that leaves a closed channel alone and returns.
StopCloseTolerant(s) ==
    /\ ~panicked
    /\ stopPc[s] = "close"
    /\ shouldStopClosed' = TRUE
    /\ stopPc' = [stopPc EXCEPT ![s] = "returned"]
    /\ UNCHANGED panicked
    /\ AlarmFrame({"stopPc", "panicked", "shouldStopClosed"})

\* Line 133, close(this.shouldStop), after which Stop() returns.  Closing a
\* closed channel panics.
StopClose(s) ==
    /\ ~panicked
    /\ stopPc[s] = "close"
    /\ IF shouldStopClosed
       THEN /\ panicked' = TRUE
            /\ stopPc' = [stopPc EXCEPT ![s] = "panic"]
            /\ UNCHANGED shouldStopClosed
       ELSE /\ shouldStopClosed' = TRUE
            /\ stopPc' = [stopPc EXCEPT ![s] = "returned"]
            /\ UNCHANGED panicked
    /\ AlarmFrame({"stopPc", "panicked", "shouldStopClosed"})

\* ---- the goroutine of run() ----

\* A fetch that returns some block of the chain, not its head.
FetchStaleHead ==
    /\ ~panicked
    /\ pc = "fetch"
    /\ currentBlock' = lastBlockNumber
    /\ headerChClosed' = FALSE
    /\ sub' = "none"
    /\ IF ledgerUp
       THEN /\ \E h \in 1..chainHead : headerCh' = <<h>>
            /\ pc' = "subscribe"
       ELSE /\ headerCh' = <<>>
            /\ pc' = "sleep"
    /\ AlarmFrame({"currentBlock", "headerCh", "sub", "pc"})

\* Lines 81-88: currentBlock := lastBlockNumber, a fresh headerCh, and the
\* fetch of the current head, which is put into headerCh; on an error
\* waitNewBlock returns it and run() sleeps.
FetchHead ==
    /\ ~panicked
    /\ pc = "fetch"
    /\ currentBlock' = lastBlockNumber
    /\ headerChClosed' = FALSE
    /\ sub' = "none"
    /\ IF ledgerUp
       THEN /\ headerCh' = <<chainHead>>
            /\ pc' = "subscribe"
       ELSE /\ headerCh' = <<>>
            /\ pc' = "sleep"
    /\ AlarmFrame({"currentBlock", "headerCh", "sub", "pc"})

\* Lines 89-94: SubscribeNewHead; on an error waitNewBlock returns it.
Subscribe ==
    /\ ~panicked
    /\ pc = "subscribe"
    /\ IF ledgerUp
       THEN /\ sub' = "live"
            /\ pc' = "select"
       ELSE /\ sub' = "none"
            /\ pc' = "sleep"
    /\ AlarmFrame({"sub", "pc"})

\* Lines 97, 102-108: select receives a head from headerCh; it becomes
\* currentBlock and the range loop over this.callback begins.
ReceiveHead ==
    /\ ~panicked
    /\ pc = "select"
    /\ headerCh # <<>>
    /\ currentBlock' = Head(headerCh)
    /\ headerCh' = Tail(headerCh)
    /\ UNCHANGED headerChClosed
    /\ ranging' = callback
    /\ idx' = 1
    /\ removes' = <<>>
    /\ pc' = "callbacks"
    /\ AlarmFrame({"currentBlock", "headerCh", "loop", "pc"})

\* Lines 98-100: select receives from the closed, drained headerCh and
\* waitNewBlock returns an error.
ReceiveClosed ==
    /\ ~panicked
    /\ pc = "select"
    /\ headerCh = <<>>
    /\ headerChClosed
    /\ pc' = "sleep"
    /\ AlarmFrame({"pc"})

\* The callback the dispatcher of chain-derived state changes registers.
Dispatcher == 1

\* The dispatcher invoked with height h: the events of the blocks after
\* the one it was last invoked with, up to h, become state changes and are
\* delivered in the order of the chain.
Dispatch(h) ==
    /\ delivered' =
          IF Len(delivered) < MaxDelivered
          THEN delivered \o SelectSeq(chainEvents,
                     LAMBDA e : e.block > dispatchedTo /\ e.block <= h)
          ELSE delivered
    /\ dispatchedTo' = h
    /\ UNCHANGED chainEvents

\* Lines 109-112: one iteration of the range loop: the callback is invoked
\* with currentBlock and is noted in removes when it returns an error.
InvokeCallback ==
    /\ ~panicked
    /\ pc = "callbacks"
    /\ idx <= Len(ranging)
    /\ \E err \in BOOLEAN :
        removes' = IF err THEN Append(removes, ranging[idx]) ELSE removes
    /\ lastArg' = [lastArg EXCEPT ![ranging[idx]] = currentBlock]
    /\ idx' = idx + 1
    /\ UNCHANGED ranging
    /\ IF ranging[idx] = Dispatcher
       THEN Dispatch(currentBlock)
       ELSE UNCHANGED dispatchVars
    /\ AlarmFrame({"loop", "observed", "dispatch"})

\* Lines 114-116: RemoveCallback for every callback that returned an error,
\* then back to the select.
RemoveErrored ==
    /\ ~panicked
    /\ pc = "callbacks"
    /\ idx > Len(ranging)
    /\ callback' = RemoveAll(callback, removes)
    /\ pc' = "select"
    /\ AlarmFrame({"callback", "pc"})

\* Lines 118-121: select receives from shouldStop, either the value a
\* Stop() call is sending or the zero value of the closed channel;
\* waitNewBlock unsubscribes, closes headerCh and returns nil, and the loop
\* of run() calls waitNewBlock again at once.
ReceiveStop ==
    /\ ~panicked
    /\ pc = "select"
    /\ \/ /\ shouldStopClosed
          /\ UNCHANGED stopPc
       \/ /\ ~shouldStopClosed
          /\ \E s \in Stoppers :
                /\ stopPc[s] = "send"
                /\ stopPc' = [stopPc EXCEPT ![s] = "close"]
    /\ sub' = "none"
    /\ headerChClosed' = TRUE
    /\ UNCHANGED headerCh
    /\ pc' = "fetch"
    /\ AlarmFrame({"stopPc", "sub", "headerCh", "pc"})

\* A run() that returns after the sleep instead of looping.
SleepAndReturn ==
    /\ ~panicked
    /\ pc = "sleep"
    /\ pc' = "returned"
    /\ AlarmFrame({"pc"})

\* Line 75: time.Sleep(this.waitTime), then the next waitNewBlock.
Sleep ==
    /\ ~panicked
    /\ pc = "sleep"
    /\ pc' = "fetch"
    /\ AlarmFrame({"pc"})

(***************************************************************************)
(* ConnectionManager                                                       *)
(***************************************************************************)

\* Number of other nodes that may appear in the token network.
NNodes == 2
\* Largest funds a caller passes to Connect.
MaxFunds == 10
\* Largest initialChannelTarget a caller passes to Connect.
MaxTarget == 3

\* Addresses: the other nodes, this node and the bootstrap placeholder.
Nodes == 1..NNodes
NodeAddress == 100
BOOTSTRAP_ADDR == 202
Addr == Nodes \cup {BOOTSTRAP_ADDR}

\* The token network this connection manager belongs to.
tokenAddress == "token"

\* NewConnectionManager: initChannelTarget 3 and joinableFundsTarget 0.4.
\* Fractions are kept exact, as numerator and denominator.
DefaultChannelTarget == 3
DefaultJoinableFundsTarget == [num |-> 2, den |-> 5]

\* Arguments callers pass.  The fraction passed is 1/4, which float64
\* represents exactly: for it and for funds and targets of this size,
\* f1 * (1 - joinableFundsTarget) / f2 of initialFundingPerPartner is the
\* correctly rounded quotient of two exact numbers, and its truncation is
\* the same as in exact arithmetic.
Quarter == [num |-> 1, den |-> 4]
FundsValues == {-1, 0, MaxFunds \div 2, MaxFunds}
TargetValues == {1, MaxTarget}
FractionValues == {Quarter}
DepositValues == {2, MaxFunds}

NoChannel == [state |-> "none", balance |-> 0, received |-> FALSE]
NewChannel == [state |-> "opened", balance |-> 0, received |-> FALSE]

Min(a, b) == IF a < b THEN a ELSE b
Max(a, b) == IF a > b THEN a ELSE b

RECURSIVE SumOver(_, _)
\* The sum of f over the finite set S.
SumOver(f, S) ==
    IF S = {} THEN 0
    ELSE LET x == CHOOSE y \in S : TRUE
         IN f[x] + SumOver(f, S \ {x})

RECURSIVE Perms(_)
\* The sequences that enumerate the finite set S once.
Perms(S) ==
    IF S = {} THEN {<<>>}
    ELSE UNION {{<<x>> \o p : p \in Perms(S \ {x})} : x \in S}

\* ---- the ledger api (RaidenApi.Open, Deposit, Close) ----

\* api.Open(token, partner, ...): creates the channel with partner, with no
\* deposit, and makes both ends known to the channel graph; fails when the
\* ledger call fails or a channel with partner exists already.
ApiOpenOk(chs, partner, ok) == ok /\ chs[partner].state = "none"
ApiOpen(chs, partner) == [chs EXCEPT ![partner] = NewChannel]

\* api.Deposit(token, partner, amount, ...): adds amount to this node's
\* deposit in the open channel with partner.
ApiDepositOk(chs, partner, ok) == ok /\ chs[partner].state = "opened"
ApiDeposit(chs, partner, amount) ==
    [chs EXCEPT ![partner].balance = chs[partner].balance + amount]

\* api.Close(token, partner): closes the open channel with partner.  The
\* connection manager reads the balance and the transfers of open channels
\* only: those of a channel that is no longer open are not kept.
ApiCloseOk(chs, partner, ok) == ok /\ chs[partner].state = "opened"
ApiClose(chs, partner) ==
    [chs EXCEPT ![partner] =
        [state |-> "closed", balance |-> 0, received |-> FALSE]]

OpenCall(partner) == [op |-> "open", partner |-> partner, amount |-> 0]
DepositCall(partner, amount) ==
    [op |-> "deposit", partner |-> partner, amount |-> amount]
CloseCall(partner) == [op |-> "close", partner |-> partner, amount |-> 0]

\* ---- the helpers of the connection manager ----

\* openChannels(): the channels in state CHANNEL_STATE_OPENED, by partner.
openChannels(chs) == {p \in Addr : chs[p].state = "opened"}

\* sumDeposits(): the sum of ContractBalance over the open channels.
sumDeposits(chs) ==
    SumOver([p \in Addr |-> chs[p].balance], openChannels(chs))

\* fundsRemaining().
fundsRemaining(f, chs) == IF f > 0 THEN f - sumDeposits(chs) ELSE 0

\* initialFundingPerPartner(): int64(f1 * (1 - joinableFundsTarget) / f2).
initialFundingPerPartner(f, target, jft) ==
    IF target > 0
    THEN (f * (jft.den - jft.num)) \div (jft.den * target)
    ELSE 0

\* receivingChannels(): the open channels with len(ReceivedTransfers) > 0.
receivingChannels(chs) == {p \in openChannels(chs) : chs[p].received}

\* LeaveState().
LeaveState(blocked, target) == tokenAddress \in blocked \/ target < 1

\* A Leave that does not block the token.
blockNothing(blocked) == blocked

\* Line 227 of Leave: blockedTokens[this.tokenAddress] = true.
blockToken(blocked) == blocked \cup {tokenAddress}

\* WantsMoreChannels().
WantsMoreChannels(blocked, f, target, chs) ==
    IF tokenAddress \in blocked THEN FALSE
    ELSE fundsRemaining(f, chs) > 0 /\ Cardinality(openChannels(chs)) < target

\* channelGraph.HaveNodes().
HaveNodes(graph) == graph # {}

\* The partners findNewPartners does not consider: those of open channels,
\* the bootstrap placeholder and this node.
known(chs) == openChannels(chs) \cup {BOOTSTRAP_ADDR, NodeAddress}

\* availables of findNewPartners: allnodes without the known ones, in the
\* order of allnodes.
availables(chs, allnodes) ==
    SelectSeq(allnodes, LAMBDA n : n \notin known(chs))

\* A variant of findNewPartners without the cut of lines 384-385: all the
\* availables are returned.
findNewPartnersUncut(chs, allnodes, number) == availables(chs, allnodes)

\* findNewPartners(number).
findNewPartners(chs, allnodes, number) ==
    LET av == availables(chs, allnodes)
    IN IF number < Len(av) THEN SubSeq(av, 1, number) ELSE av

\* The orders channelGraph.AllNodes() may return the other nodes in.
AllNodesOrders == Perms(Nodes)

\* channelGraph.AllNodes(): the nodes of the graph, the other nodes in the
\* given order.
AllNodes(graph, order) ==
    SelectSeq(<<NodeAddress, BOOTSTRAP_ADDR>> \o order, LAMBDA n : n \in graph)

\* ---- the operations, as functions of the state they work on ----
\* A working state st holds the channels (chs), the graph, the ledger calls
\* issued so far (calls), the number of steps that can fail taken so far
\* (step) and whether the last step failed (err).  failAt is the step that
\* fails in this operation, 0 when none does.

\* Lines 80-85 of Connect: the bootstrap channel; an error is only logged.
openBootstrap(st, failAt) ==
    LET s1 == st.step + 1
        c1 == Append(st.calls, OpenCall(BOOTSTRAP_ADDR))
    IN IF ApiOpenOk(st.chs, BOOTSTRAP_ADDR, failAt # s1)
       THEN [st EXCEPT !.chs = ApiOpen(st.chs, BOOTSTRAP_ADDR),
                       !.graph = st.graph \cup {BOOTSTRAP_ADDR, NodeAddress},
                       !.calls = c1, !.step = s1, !.err = FALSE]
       ELSE [st EXCEPT !.calls = c1, !.step = s1, !.err = FALSE,
                       !.failed = TRUE]

\* openAndDeposit(partner, fundingAmount): Open, the lookup of the partner
\* in PartenerAddress2Channel, Deposit; the first failure is returned.
openAndDeposit(st, partner, fundingAmount, failAt) ==
    LET s1 == st.step + 1
        s2 == st.step + 2
        s3 == st.step + 3
        c1 == Append(st.calls, OpenCall(partner))
        c3 == Append(c1, DepositCall(partner, fundingAmount))
        chs1 == ApiOpen(st.chs, partner)
        g1 == st.graph \cup {partner, NodeAddress}
    IN IF ~ApiOpenOk(st.chs, partner, failAt # s1)
       THEN [st EXCEPT !.calls = c1, !.step = s1, !.err = TRUE,
                       !.failed = TRUE]
       ELSE IF failAt = s2
       THEN [st EXCEPT !.chs = chs1, !.calls = c1, !.step = s2,
                       !.err = TRUE, !.failed = TRUE]
       ELSE IF ~ApiDepositOk(chs1, partner, failAt # s3)
       THEN [st EXCEPT !.chs = chs1, !.graph = g1, !.calls = c3,
                       !.step = s3, !.err = TRUE, !.failed = TRUE]
       ELSE [st EXCEPT !.chs = ApiDeposit(chs1, partner, fundingAmount),
                       !.graph = g1, !.calls = c3, !.step = s3,
                       !.err = FALSE]

RECURSIVE addPartnersLoop(_, _, _, _)
\* The loop of addNewPartners over the partners found: it returns at the
\* first error.
addPartnersLoop(st, partners, fundingAmount, failAt) ==
    IF partners = <<>> THEN st
    ELSE LET st1 == openAndDeposit(st, Head(partners), fundingAmount, failAt)
         IN IF st1.err THEN st1
            ELSE addPartnersLoop(st1, Tail(partners), fundingAmount, failAt)

\* newPartnerCount of addNewPartners (line 290).
newPartnerCount(chs, target) == target - Cardinality(openChannels(chs))

\* What the call findNewPartners(newPartnerCount) of line 294 may return,
\* one result per order of AllNodes(); nothing is looked for when
\* addNewPartners returns at line 292.
foundPartners(chs, graph, target) ==
    IF newPartnerCount(chs, target) <= 0 THEN {<<>>}
    ELSE {findNewPartners(chs, AllNodes(graph, order),
                          newPartnerCount(chs, target)) :
            order \in AllNodesOrders}

\* addNewPartners() with the fields f, target and jft, partners being what
\* findNewPartners returns to it.
addNewPartners(st, f, target, jft, partners, failAt) ==
    IF newPartnerCount(st.chs, target) <= 0 THEN [st EXCEPT !.err = FALSE]
    ELSE addPartnersLoop([st EXCEPT !.err = FALSE], partners,
                         initialFundingPerPartner(f, target, jft), failAt)

\* A variant of the guard of line 65 that lets funds of 0 through.
ConnectRejectsNegative(f) == f < 0

\* The guard Connect begins with (line 65).
ConnectRejects(f) == f <= 0

\* A variant of the guards of RetryConnect without the test of lines
\* 320-322 on the remaining funds.
RetryConnectReturnsFunded(blocked, f, target, chs) ==
    \/ f <= 0
    \/ LeaveState(blocked, target)
    \/ Cardinality(openChannels(chs)) >= target

\* The guards of RetryConnect (lines 312-325): whether it returns before
\* addNewPartners.
RetryConnectReturns(blocked, f, target, chs) ==
    \/ f <= 0
    \/ LeaveState(blocked, target)
    \/ fundsRemaining(f, chs) <= 0
    \/ Cardinality(openChannels(chs)) >= target

\* A variant of joiningFunds without the cap of lines 349-351 by the
\* remaining funds.
joiningFundsUncapped(f, target, jft, chs, partnerDepost) ==
    Min(partnerDepost, initialFundingPerPartner(f, target, jft))

\* joiningFunds of JoinChannel (lines 346-354).
joiningFunds(f, target, jft, chs, partnerDepost) ==
    Min(Min(partnerDepost, fundsRemaining(f, chs)),
        initialFundingPerPartner(f, target, jft))

\* Whether JoinChannel reaches the deposit (lines 338-357).
JoinChannelDeposits(blocked, f, target, jft, chs, partnerDepost) ==
    /\ f > 0
    /\ ~LeaveState(blocked, target)
    /\ joiningFunds(f, target, jft, chs, partnerDepost) > 0

\* A variant of channelsToClose that ignores onlyReceiving.
channelsToCloseAll(chs, onlyReceiving) == openChannels(chs)

\* channelsToClose of closeAll (lines 198-203).
channelsToClose(chs, onlyReceiving) ==
    IF onlyReceiving THEN receivingChannels(chs) ELSE openChannels(chs)

RECURSIVE Ascending(_)
\* The elements of a set of addresses as a sequence, lowest first.
Ascending(S) ==
    IF S = {} THEN <<>>
    ELSE LET x == CHOOSE y \in S : \A z \in S : y <= z
         IN <<x>> \o Ascending(S \ {x})

RECURSIVE closeLoop(_, _, _)
\* The loop of closeAll (lines 204-209): an error is only logged.
closeLoop(st, cs, failAt) ==
    IF cs = <<>> THEN st
    ELSE LET s1 == st.step + 1
             c1 == Append(st.calls, CloseCall(Head(cs)))
             st1 == IF ApiCloseOk(st.chs, Head(cs), failAt # s1)
                    THEN [st EXCEPT !.chs = ApiClose(st.chs, Head(cs)),
                                    !.calls = c1, !.step = s1]
                    ELSE [st EXCEPT !.calls = c1, !.step = s1,
                                    !.failed = TRUE]
         IN closeLoop(st1, Tail(cs), failAt)

\* A scan that only waits for the channels whose close went through.
settleScanClosedOnly(fnd, chs, closed) ==
    fnd \/ \E p \in closed : chs[p].state = "closed"

\* The scan of WaitForSettle (lines 243-248) on top of the found it has.
settleScan(fnd, chs, closed) ==
    fnd \/ \E p \in closed : chs[p].state # "settled"

\* ---- state and actions ----

\* The steps of an operation that can fail are numbered from 1: in Connect
\* the bootstrap Open, then an Open, a lookup and a Deposit per new partner.
\* At most one step of an operation fails, one of the first MaxFailStep.
MaxFailStep == 4
FailSteps == 0..MaxFailStep

\* The working state an operation starts from.
Working == [chs |-> channels, graph |-> graphNodes, calls |-> <<>>,
            step |-> 0, err |-> FALSE, failed |-> FALSE]

\* The record of an operation: its name, its arguments, whether it returned
\* an error (err) and whether a ledger call or lookup of it failed (failed).
Op(n, f, p, d, r, e, fl) ==
    [name |-> n, funds |-> f, partner |-> p, deposit |-> d,
     onlyReceiving |-> r, err |-> e, failed |-> fl]

\* The record after a step of the environment.
NoOp == Op("none", 0, 0, 0, FALSE, FALSE, FALSE)

\* NewConnectionManager, in a token network without nodes or channels.
CMInit ==
    /\ funds = 0
    /\ initChannelTarget = DefaultChannelTarget
    /\ joinableFundsTarget = DefaultJoinableFundsTarget
    /\ blockedTokens = {}
    /\ channels = [p \in Addr |-> NoChannel]
    /\ graphNodes = {}
    /\ leavePc = "idle"
    /\ closedChannels = {}
    /\ found = FALSE
    /\ calls = <<>>
    /\ lastOp = NoOp

\* ---- environment: the token network ----

\* Another node becomes known to the channel graph.
NodeJoins(n) ==
    /\ n \notin graphNodes
    /\ graphNodes' = graphNodes \cup {n}
    /\ UNCHANGED <<funds, initChannelTarget, joinableFundsTarget,
                   blockedTokens, channels, leavePc, closedChannels, found>>
    /\ calls' = <<>>
    /\ lastOp' = NoOp
    /\ UNCHANGED <<alarmVars, auxVars>>

\* A transfer is received over an open channel.
ReceiveTransfer(p) ==
    /\ channels[p].state = "opened"
    /\ ~channels[p].received
    /\ channels' = [channels EXCEPT ![p].received = TRUE]
    /\ UNCHANGED <<funds, initChannelTarget, joinableFundsTarget,
                   blockedTokens, graphNodes, leavePc, closedChannels, found>>
    /\ calls' = <<>>
    /\ lastOp' = NoOp
    /\ UNCHANGED <<alarmVars, auxVars>>

\* A closed channel is settled on the chain.
ChannelSettles(p) ==
    /\ channels[p].state = "closed"
    /\ channels' = [channels EXCEPT ![p].state = "settled"]
    /\ UNCHANGED <<funds, initChannelTarget, joinableFundsTarget,
                   blockedTokens, graphNodes, leavePc, closedChannels, found>>
    /\ calls' = <<>>
    /\ lastOp' = NoOp
    /\ UNCHANGED <<alarmVars, auxVars>>

\* ---- the operations ----

\* Connect(funds, initialChannelTarget, joinableFundsTarget).
Connect(f, target, jft) ==
    /\ IF ConnectRejects(f)
       THEN /\ lastOp' = Op("Connect", f, 0, 0, FALSE, TRUE, FALSE)
            /\ calls' = <<>>
            /\ UNCHANGED <<funds, initChannelTarget, joinableFundsTarget,
                           blockedTokens, channels, graphNodes>>
       ELSE \E failAt \in FailSteps :
            \E st1 \in {IF ~HaveNodes(graphNodes)
                         THEN openBootstrap(Working, failAt)
                         ELSE Working} :
            \E partners \in foundPartners(st1.chs, st1.graph, target) :
            /\ failAt <= st1.step + 3 * Len(partners)
            /\ \E st2 \in {addNewPartners(st1, f, target, jft, partners,
                                          failAt)} :
               /\ blockedTokens' = blockedTokens \ {tokenAddress}
               /\ initChannelTarget' = target
               /\ joinableFundsTarget' = jft
               /\ funds' = f
               /\ channels' = st2.chs
               /\ graphNodes' = st2.graph
               /\ calls' = st2.calls
               /\ lastOp' = Op("Connect", f, 0, 0, FALSE, st2.err, st2.failed)
    /\ UNCHANGED <<leavePc, closedChannels, found>>
    /\ UNCHANGED <<alarmVars, auxVars>>

\* RetryConnect().
RetryConnect ==
    /\ IF RetryConnectReturns(blockedTokens, funds, initChannelTarget,
                              channels)
       THEN /\ calls' = <<>>
            /\ lastOp' = Op("RetryConnect", 0, 0, 0, FALSE, FALSE, FALSE)
            /\ UNCHANGED <<channels, graphNodes>>
       ELSE \E partners \in foundPartners(channels, graphNodes,
                                          initChannelTarget) :
            \E failAt \in 0..Min(MaxFailStep, 3 * Len(partners)) :
            \E st1 \in {addNewPartners(Working, funds, initChannelTarget,
                                        joinableFundsTarget, partners,
                                        failAt)} :
               /\ channels' = st1.chs
               /\ graphNodes' = st1.graph
               /\ calls' = st1.calls
               /\ lastOp' = Op("RetryConnect", 0, 0, 0, FALSE, FALSE,
                               st1.failed)
    /\ UNCHANGED <<funds, initChannelTarget, joinableFundsTarget,
                   blockedTokens, leavePc, closedChannels, found>>
    /\ UNCHANGED <<alarmVars, auxVars>>

\* A node opens a channel towards this node and deposits partnerDepost into
\* it; the channel is registered with the graph and
\* JoinChannel(partnerAddress, partnerDepost) is called for it.
JoinChannel(partner, partnerDepost) ==
    /\ channels[partner].state = "none"
    /\ graphNodes' = graphNodes \cup {partner, NodeAddress}
    /\ \E chs0 \in {ApiOpen(channels, partner)} :
          IF JoinChannelDeposits(blockedTokens, funds, initChannelTarget,
                                 joinableFundsTarget, chs0, partnerDepost)
          THEN \E amount \in {joiningFunds(funds, initChannelTarget,
                                            joinableFundsTarget, chs0,
                                            partnerDepost)} :
               \E failAt \in 0..Min(MaxFailStep, 1) :
               \E ok \in {ApiDepositOk(chs0, partner, failAt # 1)} :
                  /\ calls' = <<DepositCall(partner, amount)>>
                  /\ channels' = IF ok
                                 THEN ApiDeposit(chs0, partner, amount)
                                 ELSE chs0
                  /\ lastOp' = Op("JoinChannel", 0, partner, partnerDepost,
                                  FALSE, FALSE, ~ok)
          ELSE /\ calls' = <<>>
               /\ lastOp' = Op("JoinChannel", 0, partner, partnerDepost,
                               FALSE, FALSE, FALSE)
               /\ channels' = chs0
    /\ UNCHANGED <<funds, initChannelTarget, joinableFundsTarget,
                   blockedTokens, leavePc, closedChannels, found>>
    /\ UNCHANGED <<alarmVars, auxVars>>

\* Leave(onlyReceiving) up to the call of WaitForSettle (lines 227-231):
\* the token is blocked, the target set to 0 and closeAll closes the channels.
LeaveBegin(onlyReceiving) ==
    /\ leavePc # "wait"
    /\ \E toClose \in {channelsToClose(channels, onlyReceiving)} :
       \E failAt \in 0..Min(MaxFailStep, Cardinality(toClose)) :
       \E st1 \in {closeLoop(Working, Ascending(toClose), failAt)} :
          /\ blockedTokens' = blockToken(blockedTokens)
          /\ initChannelTarget' = 0
          /\ channels' = st1.chs
          /\ calls' = st1.calls
          /\ closedChannels' = toClose
          /\ lastOp' = Op("Leave", 0, 0, 0, onlyReceiving, FALSE, st1.failed)
    /\ found' = FALSE
    /\ leavePc' = "wait"
    /\ UNCHANGED <<funds, joinableFundsTarget, graphNodes>>
    /\ UNCHANGED <<alarmVars, auxVars>>

\* One round of the loop of WaitForSettle (lines 242-254): the scan, then
\* either the sleep of a minute or the break, after which Leave returns.
WaitForSettlePoll ==
    /\ leavePc = "wait"
    /\ found' = settleScan(found, channels, closedChannels)
    /\ leavePc' = IF found' THEN "wait" ELSE "returned"
    /\ UNCHANGED <<funds, initChannelTarget, joinableFundsTarget,
                   blockedTokens, channels, graphNodes, closedChannels>>
    /\ calls' = <<>>
    /\ lastOp' = Op("WaitForSettle", 0, 0, 0, FALSE, FALSE, FALSE)
    /\ UNCHANGED <<alarmVars, auxVars>>

(***************************************************************************)
(* Concurrent callers of one ConnectionManager.  Every goroutine calls the *)
(* operations one after another; a step is one access to a shared field,   *)
(* one lock operation or one run of ledger calls under the lock.  Ledger   *)
(* calls fail only when the ledger refuses them.                           *)
(***************************************************************************)

\* Number of goroutines that call the connection manager.
NThreads == 2
\* Number of operations each goroutine calls.
MaxCalls == 2

Threads == 1..NThreads

\* A goroutine that is in no operation and has called n of them.  Beside
\* the arguments and locals of its operation, issued holds the ledger calls
\* the operation has issued so far.
IdleThread(n) ==
    [pc |-> "idle", n |-> n, funds |-> 0, target |-> 0, jft |-> Quarter,
     partner |-> 0, deposit |-> 0, onlyReceiving |-> FALSE,
     partners |-> <<>>, amount |-> 0, closed |-> {}, found |-> FALSE,
     haveNodes |-> FALSE, issued |-> <<>>]

\* No goroutine has called anything, the mutex is free.
ConcInit ==
    /\ threads = [t \in Threads |-> IdleThread(0)]
    /\ lock = 0

\* A step of goroutine t: its new record, and the new values of the mutex
\* and of the shared state.
ConcStep(t, th, lk, bl, f, tg, j, chs, g) ==
    /\ threads' = [threads EXCEPT ![t] = th]
    /\ lock' = lk
    /\ blockedTokens' = bl
    /\ funds' = f
    /\ initChannelTarget' = tg
    /\ joinableFundsTarget' = j
    /\ channels' = chs
    /\ graphNodes' = g
    /\ UNCHANGED <<leavePc, closedChannels, found, calls, lastOp>>
    /\ UNCHANGED <<alarmVars, dispatchVars, notifyVars>>

\* A step of goroutine t that changes nothing shared.
ThreadStep(t, th) ==
    ConcStep(t, th, lock, blockedTokens, funds, initChannelTarget,
             joinableFundsTarget, channels, graphNodes)

\* Goroutine t moved to position to.
Goto(t, to) == [threads[t] EXCEPT !.pc = to]

\* Goroutine t back from its operation.
Returned(t) == IdleThread(threads[t].n)

\* Goroutine t may call an operation.
MayCall(t) == threads[t].pc = "idle" /\ threads[t].n < MaxCalls

\* A Lock() that does not wait for the mutex to be free.
LockWithoutWaiting(t, from, to) ==
    /\ threads[t].pc = from
    /\ ConcStep(t, Goto(t, to), t, blockedTokens, funds, initChannelTarget,
                joinableFundsTarget, channels, graphNodes)

\* this.lock.Lock() at position from: blocks while the mutex is held.
Lock(t, from, to) ==
    /\ threads[t].pc = from
    /\ lock = 0
    /\ ConcStep(t, Goto(t, to), t, blockedTokens, funds, initChannelTarget,
                joinableFundsTarget, channels, graphNodes)

\* this.lock.Unlock() at position from, after which the operation goes on
\* at position to, or returns when to is "idle".
Unlock(t, from, to) ==
    /\ threads[t].pc = from
    /\ ConcStep(t, IF to = "idle" THEN Returned(t) ELSE Goto(t, to), 0,
                blockedTokens, funds, initChannelTarget, joinableFundsTarget,
                channels, graphNodes)

\* Lines 290-294 of addNewPartners, called at position from: the partners
\* findNewPartners returns are kept for the loop.
FindPartners(t, from, to) ==
    /\ threads[t].pc = from
    /\ \E partners \in foundPartners(channels, graphNodes, initChannelTarget) :
          ThreadStep(t, [threads[t] EXCEPT !.pc = to, !.partners = partners])

\* Lines 294-300 of addNewPartners: openAndDeposit for the partners found.
FundPartners(t, from, to) ==
    /\ threads[t].pc = from
    /\ \E st \in {addPartnersLoop(Working, threads[t].partners,
                        initialFundingPerPartner(funds, initChannelTarget,
                                                 joinableFundsTarget), 0)} :
          ConcStep(t, [threads[t] EXCEPT !.pc = to,
                                         !.issued = @ \o st.calls],
                   lock, blockedTokens, funds,
                   initChannelTarget, joinableFundsTarget, st.chs, st.graph)

\* Connect is called: lines 65-71, the test of funds and the unblocking of
\* the token.
ConnectCall(t, f, target, jft) ==
    /\ MayCall(t)
    /\ IF ConnectRejects(f)
       THEN ThreadStep(t, IdleThread(threads[t].n + 1))
       ELSE ConcStep(t, [IdleThread(threads[t].n + 1) EXCEPT
                            !.pc = "c72", !.funds = f, !.target = target,
                            !.jft = jft],
                     lock, blockedTokens \ {tokenAddress}, funds,
                     initChannelTarget, joinableFundsTarget, channels,
                     graphNodes)

\* Line 72: this.initChannelTarget = initialChannelTarget.
ConnectSetTarget(t) ==
    /\ threads[t].pc = "c72"
    /\ ConcStep(t, Goto(t, "c73"), lock, blockedTokens, funds,
                threads[t].target, joinableFundsTarget, channels, graphNodes)

\* Line 73: this.joinableFundsTarget = joinableFundsTarget.
ConnectSetFraction(t) ==
    /\ threads[t].pc = "c73"
    /\ ConcStep(t, Goto(t, "c78"), lock, blockedTokens, funds,
                initChannelTarget, threads[t].jft, channels, graphNodes)

\* A Connect that bootstraps whatever HaveNodes() returns.
ConnectAlwaysBootstraps(t) ==
    /\ threads[t].pc = "c78"
    /\ ThreadStep(t, [threads[t] EXCEPT
                        !.pc = "c80", !.haveNodes = HaveNodes(graphNodes)])

\* Line 78: the test of channelGraph.HaveNodes().
ConnectCheckNodes(t) ==
    /\ threads[t].pc = "c78"
    /\ ThreadStep(t, [threads[t] EXCEPT
                        !.pc = IF HaveNodes(graphNodes) THEN "c87" ELSE "c80",
                        !.haveNodes = HaveNodes(graphNodes)])

\* Line 81: the bootstrap channel is opened, under the lock.
ConnectOpenBootstrap(t) ==
    /\ threads[t].pc = "c81"
    /\ \E st \in {openBootstrap(Working, 0)} :
          ConcStep(t, [threads[t] EXCEPT !.pc = "c85",
                                         !.issued = @ \o st.calls],
                   lock, blockedTokens, funds,
                   initChannelTarget, joinableFundsTarget, st.chs, st.graph)

\* Line 88: this.funds = funds.
ConnectSetFunds(t) ==
    /\ threads[t].pc = "c88"
    /\ ConcStep(t, Goto(t, "c89"), lock, blockedTokens, threads[t].funds,
                initChannelTarget, joinableFundsTarget, channels, graphNodes)

\* RetryConnect is called: the test of line 312.
RetryConnectCall(t) ==
    /\ MayCall(t)
    /\ ThreadStep(t, IF funds <= 0
                     THEN IdleThread(threads[t].n + 1)
                     ELSE [IdleThread(threads[t].n + 1) EXCEPT !.pc = "r315"])

\* Line 315: the test of LeaveState().
RetryConnectCheckLeave(t) ==
    /\ threads[t].pc = "r315"
    /\ ThreadStep(t, IF LeaveState(blockedTokens, initChannelTarget)
                     THEN Returned(t) ELSE Goto(t, "r318"))

\* Lines 320-325: the tests under the lock.
RetryConnectCheckFunds(t) ==
    /\ threads[t].pc = "r320"
    /\ ThreadStep(t, IF \/ fundsRemaining(funds, channels) <= 0
                        \/ Cardinality(openChannels(channels))
                                >= initChannelTarget
                     THEN Goto(t, "r328") ELSE Goto(t, "r327"))

\* A node opens a channel towards this node and JoinChannel is called for
\* it: the test of line 338.
JoinChannelCall(t, partner, partnerDepost) ==
    /\ MayCall(t)
    /\ channels[partner].state = "none"
    /\ ConcStep(t, IF funds <= 0
                   THEN IdleThread(threads[t].n + 1)
                   ELSE [IdleThread(threads[t].n + 1) EXCEPT
                            !.pc = "j341", !.partner = partner,
                            !.deposit = partnerDepost],
                lock, blockedTokens, funds, initChannelTarget,
                joinableFundsTarget, ApiOpen(channels, partner),
                graphNodes \cup {partner, NodeAddress})

\* Line 341: the test of LeaveState().
JoinChannelCheckLeave(t) ==
    /\ threads[t].pc = "j341"
    /\ ThreadStep(t, IF LeaveState(blockedTokens, initChannelTarget)
                     THEN Returned(t) ELSE Goto(t, "j344"))

\* Lines 346-357: joiningFunds is computed under the lock.
JoinChannelCompute(t) ==
    /\ threads[t].pc = "j346"
    /\ \E amount \in {joiningFunds(funds, initChannelTarget,
                                    joinableFundsTarget, channels,
                                    threads[t].deposit)} :
          ThreadStep(t, IF amount <= 0
                        THEN Goto(t, "j361")
                        ELSE [threads[t] EXCEPT !.pc = "j358",
                                                !.amount = amount])

\* Line 358: the deposit.
JoinChannelDeposit(t) ==
    /\ threads[t].pc = "j358"
    /\ ConcStep(t, [threads[t] EXCEPT
                      !.pc = "j361",
                      !.issued = Append(@, DepositCall(threads[t].partner,
                                                       threads[t].amount))],
                lock, blockedTokens, funds,
                initChannelTarget, joinableFundsTarget,
                IF ApiDepositOk(channels, threads[t].partner, TRUE)
                THEN ApiDeposit(channels, threads[t].partner,
                                threads[t].amount)
                ELSE channels,
                graphNodes)

\* Leave is called: line 227 blocks the token.
LeaveCall(t, onlyReceiving) ==
    /\ MayCall(t)
    /\ ConcStep(t, [IdleThread(threads[t].n + 1) EXCEPT
                        !.pc = "l228", !.onlyReceiving = onlyReceiving],
                lock, blockToken(blockedTokens), funds,
                initChannelTarget, joinableFundsTarget, channels, graphNodes)

\* Lines 228-230: the target is set to 0 when it is positive.
LeaveResetTarget(t) ==
    /\ threads[t].pc = "l228"
    /\ ConcStep(t, Goto(t, "l195"), lock, blockedTokens, funds,
                IF initChannelTarget > 0 THEN 0 ELSE initChannelTarget,
                joinableFundsTarget, channels, graphNodes)

\* Line 197 of closeAll: this.initChannelTarget = 0.
CloseAllResetTarget(t) ==
    /\ threads[t].pc = "l197"
    /\ ConcStep(t, Goto(t, "l198"), lock, blockedTokens, funds, 0,
                joinableFundsTarget, channels, graphNodes)

\* Lines 198-209 of closeAll: the channels are chosen and closed.
CloseAllClose(t) ==
    /\ threads[t].pc = "l198"
    /\ \E toClose \in {channelsToClose(channels, threads[t].onlyReceiving)} :
       \E st \in {closeLoop(Working, Ascending(toClose), 0)} :
          ConcStep(t, [threads[t] EXCEPT !.pc = "l211", !.closed = toClose,
                                         !.issued = @ \o st.calls],
                   lock, blockedTokens, funds, initChannelTarget,
                   joinableFundsTarget, st.chs, graphNodes)

\* One round of the loop of WaitForSettle in the goroutine of Leave.
LeaveWaitForSettle(t) ==
    /\ threads[t].pc = "l242"
    /\ ThreadStep(t, IF settleScan(threads[t].found, channels,
                                   threads[t].closed)
                     THEN [threads[t] EXCEPT !.found = TRUE]
                     ELSE Returned(t))

ConcNext ==
    \/ \E n \in Nodes : NodeJoins(n)
    \/ \E p \in Addr : ChannelSettles(p)
    \/ \E t \in Threads, f \in {0, MaxFunds}, target \in TargetValues,
          jft \in FractionValues : ConnectCall(t, f, target, jft)
    \/ \E t \in Threads : ConnectSetTarget(t)
    \/ \E t \in Threads : ConnectSetFraction(t)
    \/ \E t \in Threads : ConnectCheckNodes(t)
    \/ \E t \in Threads : Lock(t, "c80", "c81")
    \/ \E t \in Threads : ConnectOpenBootstrap(t)
    \/ \E t \in Threads : Unlock(t, "c85", "c87")
    \/ \E t \in Threads : Lock(t, "c87", "c88")
    \/ \E t \in Threads : ConnectSetFunds(t)
    \/ \E t \in Threads : FindPartners(t, "c89", "c295")
    \/ \E t \in Threads : FundPartners(t, "c295", "c90")
    \/ \E t \in Threads : Unlock(t, "c90", "idle")
    \/ \E t \in Threads : RetryConnectCall(t)
    \/ \E t \in Threads : RetryConnectCheckLeave(t)
    \/ \E t \in Threads : Lock(t, "r318", "r320")
    \/ \E t \in Threads : RetryConnectCheckFunds(t)
    \/ \E t \in Threads : FindPartners(t, "r327", "r295")
    \/ \E t \in Threads : FundPartners(t, "r295", "r328")
    \/ \E t \in Threads : Unlock(t, "r328", "idle")
    \/ \E t \in Threads, partner \in Nodes, partnerDepost \in DepositValues :
            JoinChannelCall(t, partner, partnerDepost)
    \/ \E t \in Threads : JoinChannelCheckLeave(t)
    \/ \E t \in Threads : Lock(t, "j344", "j346")
    \/ \E t \in Threads : JoinChannelCompute(t)
    \/ \E t \in Threads : JoinChannelDeposit(t)
    \/ \E t \in Threads : Unlock(t, "j361", "idle")
    \/ \E t \in Threads, onlyReceiving \in BOOLEAN : LeaveCall(t, onlyReceiving)
    \/ \E t \in Threads : LeaveResetTarget(t)
    \/ \E t \in Threads : Lock(t, "l195", "l197")
    \/ \E t \in Threads : CloseAllResetTarget(t)
    \/ \E t \in Threads : CloseAllClose(t)
    \/ \E t \in Threads : Unlock(t, "l211", "l242")
    \/ \E t \in Threads : LeaveWaitForSettle(t)

CMNext ==
    \/ \E n \in Nodes : NodeJoins(n)
    \/ \E p \in Nodes : ReceiveTransfer(p)
    \/ \E p \in Addr : ChannelSettles(p)
    \/ \E f \in FundsValues, target \in TargetValues, jft \in FractionValues :
            Connect(f, target, jft)
    \/ RetryConnect
    \/ \E partner \in Nodes, partnerDepost \in DepositValues :
            JoinChannel(partner, partnerDepost)
    \/ \E onlyReceiving \in BOOLEAN : LeaveBegin(onlyReceiving)
    \/ WaitForSettlePoll

AlarmNext ==
    \/ NewBlock
    \/ LedgerDown
    \/ LedgerBack
    \/ StreamClose
    \/ \E cb \in Callbacks : RegisterCallback(cb)
    \/ \E cb \in Callbacks : RemoveCallback(cb)
    \/ Start
    \/ \E s \in Stoppers : StopCall(s)
    \/ \E s \in Stoppers : StopSendPanics(s)
    \/ \E s \in Stoppers : StopClose(s)
    \/ FetchHead
    \/ Subscribe
    \/ ReceiveHead
    \/ ReceiveClosed
    \/ InvokeCallback
    \/ RemoveErrored
    \/ ReceiveStop
    \/ Sleep

(***************************************************************************)
(* The notify handler: three unbuffered channels towards the upper         *)
(* application, written by non-blocking sends.                             *)
(***************************************************************************)

\* Number of goroutines that call the handler.
NProducers == 2
\* Number of items offered to the channels over a run.
MaxItems == 3

Producers == 1..NProducers

\* noticeChan, sentTransferChan and receivedTransferChan.
Chans == {"notice", "sent", "received"}

\* A caller outside the handler, with the outcome of its last call.
IdleProducer(last) == [pc |-> "idle", ch |-> "notice", item |-> 0, last |-> last]

\* NewNotifyHandler: the channels are unbuffered and nobody receives yet.
NotifyInit ==
    /\ waiting = [c \in Chans |-> FALSE]
    /\ prod = [p \in Producers |-> IdleProducer("none")]
    /\ handed = [c \in Chans |-> <<>>]
    /\ dropped = {}
    /\ nextItem = 1

NotifyFrame == UNCHANGED <<alarmVars, cmVars, dispatchVars, concVars>>

\* The upper application starts to receive from channel c.
ConsumerReceives(c) ==
    /\ ~waiting[c]
    /\ waiting' = [waiting EXCEPT ![c] = TRUE]
    /\ UNCHANGED <<prod, handed, dropped, nextItem>>
    /\ NotifyFrame

\* The upper application gives up its receive from channel c.
ConsumerGivesUp(c) ==
    /\ waiting[c]
    /\ waiting' = [waiting EXCEPT ![c] = FALSE]
    /\ UNCHANGED <<prod, handed, dropped, nextItem>>
    /\ NotifyFrame

\* The call returns without having offered anything.
ReturnIgnored(p) ==
    /\ prod' = [prod EXCEPT ![p] = IdleProducer("ignored")]
    /\ UNCHANGED <<waiting, handed, dropped, nextItem>>
    /\ NotifyFrame

\* The caller reaches the select statement with a new item for channel c.
EnterSelect(p, c) ==
    /\ nextItem <= MaxItems
    /\ prod' = [prod EXCEPT ![p] =
                  [pc |-> "select", ch |-> c, item |-> nextItem,
                   last |-> prod[p].last]]
    /\ nextItem' = nextItem + 1
    /\ UNCHANGED <<waiting, handed, dropped>>
    /\ NotifyFrame

\* Notify(level, info).
Notify(p, info) ==
    /\ prod[p].pc = "idle"
    /\ IF info \in {"nil", ""} THEN ReturnIgnored(p) ELSE EnterSelect(p, "notice")

\* NotifyReceiveMediatedTransfer(msg, ch).
NotifyReceiveMediatedTransfer(p, msg) ==
    /\ prod[p].pc = "idle"
    /\ IF msg = "nil" THEN ReturnIgnored(p) ELSE EnterSelect(p, "notice")

\* NotifySentTransfer(st).
NotifySentTransfer(p, st) ==
    /\ prod[p].pc = "idle"
    /\ IF st # "nil" THEN EnterSelect(p, "sent") ELSE ReturnIgnored(p)

\* NotifyReceiveTransfer(rt).
NotifyReceiveTransfer(p, rt) ==
    /\ prod[p].pc = "idle"
    /\ IF rt # "nil" THEN EnterSelect(p, "received") ELSE ReturnIgnored(p)

\* A select whose send waits for a receiver.
SelectSendBlocking(ready) == IF ready THEN "sent" ELSE "blocked"

\* select { case ch <- item: default: } on an unbuffered channel: the send
\* is taken when a receiver is ready, the default branch otherwise.
SelectSend(ready) == IF ready THEN "sent" ELSE "default"

\* The select statement of caller p runs, and the call returns.
Select(p) ==
    /\ prod[p].pc = "select"
    /\ \E c \in {prod[p].ch}, branch \in {SelectSend(waiting[prod[p].ch])} :
         CASE branch = "sent" ->
                /\ handed' = [handed EXCEPT ![c] = Append(@, prod[p].item)]
                /\ waiting' = [waiting EXCEPT ![c] = FALSE]
                /\ prod' = [prod EXCEPT ![p] = IdleProducer("sent")]
                /\ UNCHANGED <<dropped, nextItem>>
           [] branch = "default" ->
                /\ dropped' = dropped \cup {prod[p].item}
                /\ prod' = [prod EXCEPT ![p] = IdleProducer("dropped")]
                /\ UNCHANGED <<waiting, handed, nextItem>>
           [] OTHER -> UNCHANGED notifyVars
    /\ NotifyFrame

NotifyNext ==
    \/ \E c \in Chans : ConsumerReceives(c)
    \/ \E c \in Chans : ConsumerGivesUp(c)
    \/ \E p \in Producers, info \in {"nil", "", "text"} : Notify(p, info)
    \/ \E p \in Producers, msg \in {"nil", "msg"} :
            NotifyReceiveMediatedTransfer(p, msg)
    \/ \E p \in Producers, st \in {"nil", "st"} : NotifySentTransfer(p, st)
    \/ \E p \in Producers, rt \in {"nil", "rt"} : NotifyReceiveTransfer(p, rt)
    \/ \E p \in Producers : Select(p)

\* The dispatcher, the callers and the notify handler as constructed.
DispatchInit ==
    /\ chainEvents = <<>>
    /\ delivered = <<>>
    /\ dispatchedTo = 0

AuxInit == DispatchInit /\ ConcInit /\ NotifyInit

\* The monitor alone, the connection manager as constructed.
InitAlarm == AlarmInit /\ CMInit /\ AuxInit
SpecAlarm == InitAlarm /\ [][AlarmNext]_vars

\* The connection manager alone, the monitor as constructed.
InitCM == AlarmInit /\ ledgerUp = TRUE /\ CMInit /\ AuxInit
SpecCM == InitCM /\ [][CMNext]_vars

\* The connection manager when the caller of Leave keeps being scheduled:
\* the loop of WaitForSettle goes on polling.
LiveSpecCM == SpecCM /\ WF_vars(WaitForSettlePoll)

\* The monitor with a scheduler that lets the goroutine of run() and the
\* callers of Stop() take the steps they can take.
LiveSpecAlarm ==
    /\ SpecAlarm
    /\ WF_vars(FetchHead) /\ WF_vars(Subscribe) /\ WF_vars(ReceiveHead)
    /\ WF_vars(ReceiveClosed) /\ WF_vars(InvokeCallback)
    /\ WF_vars(RemoveErrored) /\ WF_vars(ReceiveStop) /\ WF_vars(Sleep)
    /\ \A s \in Stoppers : WF_vars(StopSendPanics(s)) /\ WF_vars(StopClose(s))

\* The monitor with the dispatcher registered, on a chain on which the
\* watched channel is closed and settled.
SpecDispatch == InitAlarm /\ [][AlarmNext \/ NewBlockWithEvent]_vars

\* The same, with a select that does not pass over a ready stop signal for
\* ever (Go chooses among the ready cases of a select at random).
LiveSpecStop == LiveSpecAlarm /\ SF_vars(ReceiveStop)

\* One connection manager called by several goroutines at once.
SpecConc == InitCM /\ [][ConcNext]_vars

\* The notify handler and its callers; a caller that can take its select
\* statement eventually does.
SpecNotify == InitCM /\ [][NotifyNext]_vars
LiveSpecNotify == SpecNotify /\ \A p \in Producers : WF_vars(Select(p))

(***************************************************************************)
(* Properties of the chain monitor, checked under SpecAlarm.               *)
(***************************************************************************)

\* The step of line 109 that invokes callback cb with currentBlock.
Invokes(cb) ==
    /\ pc = "callbacks"
    /\ idx <= Len(ranging)
    /\ ranging[idx] = cb
    /\ idx' = idx + 1

\* C1: no callback is ever invoked twice with the same height or with a
\* height lower than one it already received: every invocation of a callback
\* passes a height strictly above the last height that callback was invoked
\* with.
C1_StrictlyIncreasingHeights ==
    [][\A cb \in Callbacks : Invokes(cb) => currentBlock > lastArg[cb]]_vars

\* C2: after Stop() has returned, the monitor fetches no further head,
\* creates no further subscription and invokes no registered callback.
C2_StopHaltsPolling ==
    [][(\E s \in Stoppers : stopPc[s] = "returned")
            => ~(FetchHead \/ Subscribe \/ InvokeCallback)]_vars

\* C4: a callback that returned an error for a height is no longer in the
\* callback list once the monitor has handled that height: when the loop of
\* lines 114-116 is over, no callback noted in removes is in the list.
C4_ErroredCallbackDeregistered ==
    [][RemoveErrored => \A cb \in Range(removes) : cb \notin Range(callback')]_vars

\* C5: after RemoveCallback(cb) has returned, cb is not in the callback list.
C5_RemovedCallbackNotListed ==
    lastRemoved # 0 => lastRemoved \notin Range(callback)

(***************************************************************************)
(* Properties of the connection manager, checked under SpecCM and, for the *)
(* termination of Leave, under LiveSpecCM.                                 *)
(***************************************************************************)

\* C3: Leave eventually returns once every channel it closed is settled:
\* whenever Leave waits in WaitForSettle and all closed channels are settled,
\* WaitForSettle eventually breaks and Leave returns.
C3_LeaveReturnsOnceSettled ==
    (leavePc = "wait" /\ \A p \in closedChannels : channels[p].state = "settled")
        ~> (leavePc = "returned")

\* C6, as stated: a Connect with funds > 0 whose ledger calls all succeed
\* opens exactly min(max(target - k, 0), E) new partner channels, k the number
\* of open channels before it and E the number of nodes of the graph other
\* than this node and the bootstrap placeholder, and deposits
\* floor(funds * (1 - reserve) / target) into each of them.
C6_ConnectOpensUpToGraphNodes ==
    [][(lastOp'.name = "Connect" /\ lastOp'.funds > 0
            /\ ~lastOp'.err /\ ~lastOp'.failed)
        => LET k == Cardinality({p \in Addr : channels[p].state = "opened"})
               E == Cardinality(graphNodes \ {NodeAddress, BOOTSTRAP_ADDR})
               new == {p \in Nodes : /\ channels'[p].state = "opened"
                                      /\ channels[p].state # "opened"}
           IN /\ Cardinality(new) = Min(Max(initChannelTarget' - k, 0), E)
              /\ \A p \in new :
                    channels'[p].balance =
                        (funds' * (joinableFundsTarget'.den
                                    - joinableFundsTarget'.num))
                            \div (joinableFundsTarget'.den * initChannelTarget')
       ]_vars

\* C6, amended: as above with E the number of nodes of the graph other than
\* this node, the bootstrap placeholder and the partners of the channels
\* that are open before the call; each new channel is opened and funded by
\* one open and one deposit call, none goes to this node or the bootstrap
\* placeholder, and Connect(1000, 4, 1/4) funds each channel with 187.
C6_ConnectOpensUpToNewNodes ==
    [][(lastOp'.name = "Connect" /\ lastOp'.funds > 0
            /\ ~lastOp'.err /\ ~lastOp'.failed)
        => LET open == {p \in Addr : channels[p].state = "opened"}
               k == Cardinality(open)
               E == Cardinality(graphNodes
                                  \ (open \cup {NodeAddress, BOOTSTRAP_ADDR}))
               new == {p \in Nodes : /\ channels'[p].state = "opened"
                                      /\ channels[p].state # "opened"}
               each == (funds' * (joinableFundsTarget'.den
                                    - joinableFundsTarget'.num))
                          \div (joinableFundsTarget'.den * initChannelTarget')
           IN /\ Cardinality(new) = Min(Max(initChannelTarget' - k, 0), E)
              /\ \A p \in new : channels'[p].balance = each
              /\ {c.partner : c \in {d \in Range(calls') : d.op = "deposit"}}
                    = new
              /\ \A i \in 1..Len(calls') :
                    calls'[i].op = "deposit" => calls'[i].amount = each
              /\ initialFundingPerPartner(1000, 4, Quarter) = 187
       ]_vars

\* A Connect that succeeded next to a channel that was open already and
\* opened and funded one new channel.
C6_Witness ==
    /\ lastOp.name = "Connect"
    /\ ~lastOp.err
    /\ ~lastOp.failed
    /\ Len(calls) = 2
    /\ calls[1].op = "open"
    /\ calls[2].op = "deposit"
    /\ channels[calls[2].partner].balance > 0
    /\ \E p \in Nodes : p # calls[1].partner /\ channels[p].state = "opened"

\* C7: JoinChannel(partner, partnerDeposit) issues one deposit of exactly
\* min(remaining funds, per-partner funding, partnerDeposit) into the
\* partner's channel when that minimum is positive and no ledger call at all
\* when it is not; the amount never exceeds partnerDeposit.
C7_JoinChannelDepositsMinimum ==
    [][lastOp'.name = "JoinChannel"
        => LET open == {p \in Addr : channels[p].state = "opened"}
               remaining == IF funds > 0
                            THEN funds - SumOver([p \in Addr |->
                                            channels[p].balance], open)
                            ELSE 0
               initial == initialFundingPerPartner(funds, initChannelTarget,
                                                   joinableFundsTarget)
               m == Min(Min(remaining, initial), lastOp'.deposit)
           IN IF m > 0
              THEN /\ calls' = <<DepositCall(lastOp'.partner, m)>>
                   /\ m <= lastOp'.deposit
                   /\ ~lastOp'.failed
                        => channels'[lastOp'.partner].balance = m
              ELSE /\ calls' = <<>>
                   /\ channels'[lastOp'.partner].balance = 0
       ]_vars

\* A JoinChannel that deposited the remaining funds, which were less than
\* both the partner's deposit and the funding per partner.
C7_Witness ==
    /\ lastOp.name = "JoinChannel"
    /\ ~lastOp.failed
    /\ Len(calls) = 1
    /\ calls[1].amount > 0
    /\ calls[1].amount < lastOp.deposit
    /\ calls[1].amount < initialFundingPerPartner(funds, initChannelTarget,
                                                  joinableFundsTarget)
    /\ channels[lastOp.partner].balance = calls[1].amount

\* C8: Leave(onlyReceiving = true) issues a close call for exactly the open
\* channels that have received a transfer, Leave(onlyReceiving = false) for
\* exactly the open channels, each once, and neither issues any other call.
C8_LeaveClosesExactly ==
    [][lastOp'.name = "Leave"
        => LET open == {p \in Addr : channels[p].state = "opened"}
               expected == IF lastOp'.onlyReceiving
                           THEN {p \in open : channels[p].received}
                           ELSE open
           IN /\ \A i \in 1..Len(calls') : calls'[i].op = "close"
              /\ {calls'[i].partner : i \in 1..Len(calls')} = expected
              /\ Len(calls') = Cardinality(expected)
       ]_vars

\* A Leave(onlyReceiving = true) that closed a channel and left open one
\* that had received nothing.
C8_Witness ==
    /\ lastOp.name = "Leave"
    /\ lastOp.onlyReceiving
    /\ ~lastOp.failed
    /\ Len(calls) >= 1
    /\ \E p \in Addr : channels[p].state = "opened" /\ ~channels[p].received

\* C9: Connect with funds <= 0 returns an error and has no side effect: the
\* blocked tokens, funds, target and reserve fraction, the channels and the
\* graph are unchanged and no ledger call is issued.
C9_ConnectRejectsWithoutEffect ==
    [][(lastOp'.name = "Connect" /\ lastOp'.funds <= 0)
        => /\ lastOp'.err
           /\ calls' = <<>>
           /\ UNCHANGED <<blockedTokens, funds, initChannelTarget,
                          joinableFundsTarget, channels, graphNodes>>
       ]_vars

\* A Connect with funds <= 0 that was rejected while the token network was
\* in leaving state and funds were configured.
C9_Witness ==
    /\ lastOp.name = "Connect"
    /\ lastOp.funds <= 0
    /\ lastOp.err
    /\ calls = <<>>
    /\ tokenAddress \in blockedTokens
    /\ funds > 0

\* C10: RetryConnect issues no ledger call and changes nothing whenever
\* funds <= 0, the token network is in leaving state, the remaining funds
\* are <= 0 or the number of open channels has reached the target.
C10_RetryConnectNoOp ==
    [][(/\ lastOp'.name = "RetryConnect"
        /\ LET open == {p \in Addr : channels[p].state = "opened"}
           IN \/ funds <= 0
              \/ tokenAddress \in blockedTokens
              \/ initChannelTarget < 1
              \/ funds - SumOver([p \in Addr |-> channels[p].balance], open)
                    <= 0
              \/ Cardinality(open) >= initChannelTarget)
        => /\ calls' = <<>>
           /\ UNCHANGED <<blockedTokens, funds, initChannelTarget,
                          joinableFundsTarget, channels, graphNodes>>
       ]_vars

\* A RetryConnect that did nothing only because no funds remained: funds
\* were configured, the network was not in leaving state, fewer channels
\* than the target were open and a new partner was known.
C10_Witness ==
    /\ lastOp.name = "RetryConnect"
    /\ calls = <<>>
    /\ funds > 0
    /\ ~LeaveState(blockedTokens, initChannelTarget)
    /\ fundsRemaining(funds, channels) <= 0
    /\ Cardinality(openChannels(channels)) < initChannelTarget
    /\ graphNodes \ known(channels) # {}

(***************************************************************************)
(* Concurrent callers: the mutex                                           *)
(***************************************************************************)

\* Goroutine t took a step that changed funds, the channel target or the
\* reserve fraction.
Mutates(t) ==
    /\ threads'[t] # threads[t]
    /\ \/ funds' # funds
       \/ initChannelTarget' # initChannelTarget
       \/ joinableFundsTarget' # joinableFundsTarget

\* C11: every mutation of the connection manager's funds, channel target
\* and reserve fraction by Connect, Leave and closeAll is performed while
\* the calling goroutine holds the mutex.
C11_MutationsUnderLock ==
    [][\A t \in Threads : Mutates(t) => lock = t]_vars

\* Goroutine t is between the computation of the remaining funds or the
\* choice of partners and its last open or deposit call: in addNewPartners
\* called by Connect or RetryConnect, in the tests of RetryConnect, or in
\* the computation and the deposit of JoinChannel.
InFunding(t) ==
    threads[t].pc \in {"c89", "c295", "r320", "r327", "r295", "j346", "j358"}

\* C12: funding decisions are mutually exclusive: in every interleaving of
\* Connect, RetryConnect and JoinChannel at most one of them is between
\* computing the remaining funds or choosing partners and issuing its last
\* open or deposit call.
C12_FundingMutuallyExclusive ==
    Cardinality({t \in Threads : InFunding(t)}) <= 1

\* One goroutine is about to issue its calls while another one waits for
\* the mutex to make its own funding decision.
C12_Witness ==
    \E t, u \in Threads :
        /\ threads[t].pc \in {"c295", "r295", "j358"}
        /\ threads[u].pc \in {"c87", "r318", "j344"}
        /\ lock = t

(***************************************************************************)
(* The notify handler                                                      *)
(***************************************************************************)

\* The items that reached the upper application.
HandedItems == UNION {{handed[c][i] : i \in DOMAIN handed[c]} : c \in Chans}

\* C13: Notify, NotifySentTransfer and NotifyReceiveTransfer always return:
\* a caller at its select statement leaves it.  An item is handed over only
\* when a consumer is ready on its channel at that very step; otherwise it
\* is dropped, and a dropped item is never delivered later: every item
\* offered is either with its caller, handed over or dropped, never both.
C13_NotifyNeverBlocks ==
    /\ \A p \in Producers : (prod[p].pc = "select") ~> (prod[p].pc = "idle")
    /\ [][\A c \in Chans :
            handed'[c] # handed[c] =>
                /\ waiting[c]
                /\ \E p \in Producers :
                      /\ prod[p].pc = "select" /\ prod[p].ch = c
                      /\ prod'[p].pc = "idle"
                      /\ handed'[c] = Append(handed[c], prod[p].item)]_vars
    /\ [](/\ HandedItems \cap dropped = {}
          /\ \A i \in 1..(nextItem - 1) :
                \/ i \in HandedItems
                \/ i \in dropped
                \/ \E p \in Producers : prod[p].pc = "select" /\ prod[p].item = i)

\* An item was dropped for want of a consumer, a consumer is ready on that
\* channel afterwards, and another item was handed over.
C13_Witness ==
    \E p \in Producers, c \in Chans :
        /\ prod[p].last = "dropped"
        /\ dropped # {}
        /\ waiting[c]
        /\ handed[c] # <<>>

(***************************************************************************)
(* The monitor: retries, order of callbacks, Stop                          *)
(***************************************************************************)

\* Stop() has not been called.
NoStop == \A s \in Stoppers : stopPc[s] = "idle"

\* C14: the monitor never terminates itself on connectivity errors: when
\* the fetch of the head fails, the subscription fails or the head stream
\* is closed, and no stop was requested, it goes to its back-off sleep and
\* from there retries, again and again; once the ledger stays reachable the
\* registered callbacks are eventually invoked with a height of the chain.
C14_RetriesUntilReachable ==
    /\ [][(/\ NoStop
           /\ pc' # pc
           /\ \/ pc \in {"fetch", "subscribe"} /\ ~ledgerUp
              \/ pc = "select" /\ headerCh = <<>> /\ headerChClosed)
          => pc' = "sleep"]_vars
    /\ []NoStop => ((pc = "sleep") ~> (pc = "fetch"))
    /\ ([]NoStop /\ <>[]ledgerUp) =>
          ((pc = "sleep" /\ callback # <<>>) ~>
             (/\ pc = "callbacks" /\ idx > 1
              /\ lastArg[ranging[idx - 1]] = currentBlock
              /\ currentBlock \in 1..chainHead))

\* The monitor is in its back-off sleep after an error, no stop was
\* requested, the ledger is reachable again and a callback is registered.
C14_Witness ==
    /\ pc = "sleep"
    /\ NoStop
    /\ ledgerUp
    /\ callback # <<>>
    /\ \E cb \in Callbacks : lastArg[cb] > 0

(***************************************************************************)
(* Leave and Connect                                                       *)
(***************************************************************************)

\* C15: Leave never returns while a channel it issued a close for is not
\* settled: when Leave has returned, every channel of the list it returns
\* is in the settled state.
C15_LeaveReturnsOnlySettled ==
    leavePc = "returned" =>
        \A p \in closedChannels : channels[p].state = "settled"

\* Leave has returned a list of two channels.
C15_Witness ==
    /\ leavePc = "returned"
    /\ Cardinality(closedChannels) >= 2

\* C16: Leave puts the token network into the leaving state, which lasts
\* until the next Connect that is accepted: in between, RetryConnect and
\* JoinChannel issue no ledger call and WantsMoreChannels is false; a
\* Connect with funds > 0 and a target >= 1 ends the leaving state.
C16_LeavingUntilConnect ==
    /\ [](tokenAddress \in blockedTokens =>
            /\ LeaveState(blockedTokens, initChannelTarget)
            /\ ~WantsMoreChannels(blockedTokens, funds, initChannelTarget,
                                  channels))
    /\ [][/\ lastOp'.name = "Leave" => tokenAddress \in blockedTokens'
          /\ (tokenAddress \in blockedTokens
                /\ ~(lastOp'.name = "Connect" /\ lastOp'.funds > 0))
             => tokenAddress \in blockedTokens'
          /\ (tokenAddress \in blockedTokens
                /\ lastOp'.name \in {"RetryConnect", "JoinChannel"})
             => calls' = <<>>
          /\ (lastOp'.name = "Connect" /\ lastOp'.funds > 0
                /\ initChannelTarget' >= 1)
             => ~LeaveState(blockedTokens', initChannelTarget')]_vars

\* After Leave, RetryConnect returned without a ledger call although funds
\* remain and a node without channel is known.
C16_Witness ==
    /\ tokenAddress \in blockedTokens
    /\ lastOp.name = "RetryConnect"
    /\ calls = <<>>
    /\ fundsRemaining(funds, channels) > 0
    /\ \E n \in graphNodes : n \notin known(channels)

\* The positions of cs at which a channel to the bootstrap address is opened.
BootstrapOpens(cs) ==
    {i \in DOMAIN cs : cs[i] = OpenCall(BOOTSTRAP_ADDR)}

\* C17: in a Connect with funds > 0 that finds the graph without nodes,
\* exactly one Open to the bootstrap address is issued, and it is issued
\* before funds is recorded and before any Open or Deposit for a partner;
\* a Connect that finds nodes in the graph opens no bootstrap channel.  No
\* operation ever deposits into the bootstrap channel.
C17_BootstrapOnceAndFirst ==
    /\ [](\A t \in Threads :
            LET th == threads[t]
                boot == IF th.haveNodes THEN <<>>
                        ELSE <<OpenCall(BOOTSTRAP_ADDR)>>
            IN /\ \A i \in DOMAIN th.issued :
                     ~(th.issued[i].op = "deposit"
                        /\ th.issued[i].partner = BOOTSTRAP_ADDR)
               /\ th.pc \in {"c78", "c80", "c81"} => th.issued = <<>>
               /\ th.pc \in {"c85", "c87", "c88"} => th.issued = boot
               /\ th.pc \in {"c89", "c295", "c90"} =>
                     /\ SubSeq(th.issued, 1, Len(boot)) = boot
                     /\ BootstrapOpens(th.issued) = DOMAIN boot)
    /\ [][\A t \in Threads :
            (threads[t].pc = "c78" /\ threads'[t].pc # "c78") =>
                /\ threads'[t].haveNodes = (graphNodes # {})
                /\ threads'[t].pc = "c80" <=> graphNodes = {}]_vars

\* A Connect that found the graph empty has opened the bootstrap channel,
\* recorded its funds, and then opened and funded a channel with a node.
C17_Witness ==
    \E t \in Threads :
        /\ threads[t].pc = "c90"
        /\ ~threads[t].haveNodes
        /\ Len(threads[t].issued) >= 3
        /\ threads[t].issued[1] = OpenCall(BOOTSTRAP_ADDR)
        /\ funds = threads[t].funds

(***************************************************************************)
(* Delivery of chain-derived state changes                                 *)
(***************************************************************************)

\* C18: the state changes of a channel are delivered in non-decreasing
\* order of their block numbers, and its settled change is never delivered
\* before its closed change.
C18_DeliveredInChainOrder ==
    /\ \A i, j \in DOMAIN delivered :
          i < j => delivered[i].block <= delivered[j].block
    /\ \A i \in DOMAIN delivered :
          delivered[i].kind = "settled" =>
              \E j \in 1..(i - 1) : delivered[j].kind = "closed"

\* The closed and the settled change of the channel have been delivered.
C18_Witness ==
    /\ Len(delivered) = 2
    /\ delivered[1].kind = "closed"
    /\ delivered[2].kind = "settled"
    /\ dispatchedTo = MaxEventHeight

(***************************************************************************)
(* The monitor: order of the callbacks, Stop                               *)
(***************************************************************************)

\* C19: for each head the callbacks are invoked one after another in the
\* order of their registration (callbacks are numbered in that order): a
\* callback is invoked after all callbacks of the round registered before
\* it, with the height of the round; the height and the list do not change
\* during a round, and the round of a head ends, and the next head is
\* taken, only when every callback of the list has been invoked.
C19_CallbacksInRegistrationOrder ==
    [][/\ \A cb \in Callbacks :
            Invokes(cb) =>
                /\ \A j \in 1..Len(ranging) :
                      (j < idx <=> ranging[j] < cb) /\ (j > idx <=> ranging[j] > cb)
                /\ lastArg'[cb] = currentBlock
                /\ \A c \in Callbacks : c # cb => lastArg'[c] = lastArg[c]
       /\ pc = "callbacks" =>
             /\ currentBlock' = currentBlock
             /\ ranging' = ranging
             /\ idx' \in {idx, idx + 1}
             /\ pc' # "callbacks" => idx > Len(ranging)
       /\ lastArg' # lastArg => \E cb \in Callbacks : Invokes(cb)]_vars

\* The second of two callbacks is being invoked for a head, after the first.
C19_Witness ==
    /\ pc = "callbacks"
    /\ Len(ranging) = 2
    /\ idx = 3
    /\ lastArg[ranging[1]] = currentBlock
    /\ lastArg[ranging[2]] = currentBlock
    /\ currentBlock > 1

\* C20: the monitor accepts one stop signal.  The Stop() that returns has
\* closed shouldStop, and only one Stop() ever returns; any other Stop()
\* that is under way once the channel is closed does not get past its send
\* and ends in a run-time panic: it does not return, is not ignored and
\* does not stay blocked.
C20_SecondStopPanics ==
    /\ [](/\ Cardinality({s \in Stoppers : stopPc[s] = "returned"}) <= 1
          /\ (\E s \in Stoppers : stopPc[s] = "returned") => shouldStopClosed)
    /\ [][\A s \in Stoppers :
            (stopPc[s] \in {"send", "close"} /\ shouldStopClosed)
                => stopPc'[s] \in {stopPc[s], "panic"}]_vars
    /\ \A s \in Stoppers :
          (stopPc[s] \in {"send", "close"} /\ shouldStopClosed) ~> panicked

\* One Stop() has returned and the other one has panicked.
C20_Witness ==
    \E s, t \in Stoppers :
        /\ stopPc[s] = "returned"
        /\ stopPc[t] = "panic"
        /\ panicked

(***************************************************************************)
(* Funding: existing channels, the funds limit, Leave against funding      *)
(***************************************************************************)

\* C21: when openAndDeposit is called for a partner whose channel is open
\* already (the partner opened it after findNewPartners chose it), no
\* open is issued for that partner and the funding amount is still
\* deposited into the existing channel.
C21_DepositsIntoExistingChannel ==
    [][\A t \in Threads :
          (/\ threads[t].pc \in {"c295", "r295"}
           /\ threads'[t].pc # threads[t].pc
           /\ threads[t].partners # <<>>
           /\ channels[Head(threads[t].partners)].state = "opened")
          => LET p == Head(threads[t].partners)
                 new == SubSeq(threads'[t].issued,
                               Len(threads[t].issued) + 1,
                               Len(threads'[t].issued))
             IN /\ \E i \in DOMAIN new :
                      new[i].op = "deposit" /\ new[i].partner = p
                /\ \A i \in DOMAIN new :
                      ~(new[i].op = "open" /\ new[i].partner = p)]_vars

\* C22: a Stop() called on a started monitor eventually returns, whatever
\* the monitor is doing then, also while it backs off and retries because
\* the ledger stays unreachable.  The case is that of a single Stop().
C22_StopReturns ==
    [](\A s \in Stoppers \ {1} : stopPc[s] = "idle") =>
        ((stopPc[1] = "send" /\ pc # "new") ~> (stopPc[1] = "returned"))

\* C23: the deposits of this node in its open channels, all of them made
\* by the connection manager, never exceed the funds of the most recent
\* successful Connect: in particular they do not when such a Connect
\* returns.
C23_DepositsWithinFunds ==
    [][(lastOp'.name = "Connect" /\ ~lastOp'.err /\ ~lastOp'.failed)
        => sumDeposits(channels') <= funds']_vars

\* C24: while the token network is blocked by a Leave (and no later
\* Connect has cleared the block), a RetryConnect or JoinChannel running
\* concurrently issues no open-channel call and no positive deposit.
C24_NothingIssuedWhileBlocked ==
    [][\A t \in Threads :
          (/\ threads[t].pc \in {"r295", "j358"}
           /\ threads'[t].pc # threads[t].pc
           /\ tokenAddress \in blockedTokens)
          => ~ \E i \in DOMAIN threads'[t].issued :
                 /\ i > Len(threads[t].issued)
                 /\ \/ threads'[t].issued[i].op = "open"
                    \/ /\ threads'[t].issued[i].op = "deposit"
                       /\ threads'[t].issued[i].amount > 0]_vars

==========================================================================
